---------------------------- MODULE Spec2Model ----------------------------
(***************************************************************************)
(* Model of src/main.py, the Resume Parser & Job-Matching Portal.          *)
(*                                                                         *)
(* Text is a sequence of one-character strings.  The process state is the  *)
(* three module globals SKILLS_SET, candidates and jobs; the handlers      *)
(* dashboard, upload_resume and upload_job are the actions of Spec.  The   *)
(* pure functions extract_text_from_file, parse_resume and                 *)
(* parse_job_description are operators; SpecExtract and SpecParse apply    *)
(* them to inputs drawn from bounded sets.                                 *)
(*                                                                         *)
(* A candidate record carries name, skills, experience and filename.  The  *)
(* email and phone fields (main.py 94-98) are left out of the record: no   *)
(* property checked here reads them and no code writes them after          *)
(* parse_resume returns.                                                   *)
(***************************************************************************)
EXTENDS Integers, Sequences, FiniteSets, TLC

VARIABLES SKILLS_SET, candidates, jobs, request, xfile, xresult, ptext, presult

vars == <<SKILLS_SET, candidates, jobs, request, xfile, xresult, ptext, presult>>

-----------------------------------------------------------------------------
(* Characters and the str methods the code calls.                          *)

LowerLetters == <<"a","b","c","d","e","f","g","h","i","j","k","l","m",
                  "n","o","p","q","r","s","t","u","v","w","x","y","z">>

UpperLetters == <<"A","B","C","D","E","F","G","H","I","J","K","L","M",
                  "N","O","P","Q","R","S","T","U","V","W","X","Y","Z">>

Digits == <<"0","1","2","3","4","5","6","7","8","9">>

\* The characters of the model in ascending code point order.
CodeOrder == <<"\t", "\n", "\f", "\r", " ", "#", "+", ",", "-", ".", "/">>
             \o Digits \o <<":", "@">> \o UpperLetters \o <<"_">> \o LowerLetters

Range(s) == {s[i] : i \in 1..Len(s)}

LowerSet == Range(LowerLetters)

UpperSet == Range(UpperLetters)

ToLowerMap == [c \in UpperSet |->
                 LowerLetters[CHOOSE i \in 1..26 : UpperLetters[i] = c]]

ToUpperMap == [c \in LowerSet |->
                 UpperLetters[CHOOSE i \in 1..26 : LowerLetters[i] = c]]

OrdMap == [c \in Range(CodeOrder) |->
             CHOOSE i \in 1..Len(CodeOrder) : CodeOrder[i] = c]

\* \w of the re module: letters, digits and the underscore.
WordChars == LowerSet \cup UpperSet \cup Range(Digits) \cup {"_"}

\* What str.strip() removes and what str.splitlines() splits on.
Whitespace == {" ", "\t", "\n", "\r", "\f"}

LineBreaks == {"\n", "\r", "\f"}

LowerChar(c) == IF c \in UpperSet THEN ToLowerMap[c] ELSE c

UpperChar(c) == IF c \in LowerSet THEN ToUpperMap[c] ELSE c

IsCased(c) == c \in LowerSet \cup UpperSet

\* str.lower()
Lower(s) == [i \in 1..Len(s) |-> LowerChar(s[i])]

\* str.title(): a cased character is upper-cased when the character before
\* it is not cased, and lower-cased when it is.
Title(s) == [i \in 1..Len(s) |->
               IF i > 1 /\ IsCased(s[i-1]) THEN LowerChar(s[i])
                                           ELSE UpperChar(s[i])]

\* str.strip()
Strip(s) ==
  IF \A i \in 1..Len(s) : s[i] \in Whitespace THEN <<>>
  ELSE LET first == CHOOSE i \in 1..Len(s) :
                      /\ s[i] \notin Whitespace
                      /\ \A j \in 1..(i-1) : s[j] \in Whitespace
           last == CHOOSE i \in 1..Len(s) :
                     /\ s[i] \notin Whitespace
                     /\ \A j \in (i+1)..Len(s) : s[j] \in Whitespace
       IN SubSeq(s, first, last)

\* s[:n]
Take(s, n) == SubSeq(s, 1, IF Len(s) < n THEN Len(s) ELSE n)

\* lines[0] if lines else dflt, for
\* lines = [line.strip() for line in text.splitlines() if line.strip()].
\* The first non-blank line holds the first non-whitespace character of the
\* text; it ends before the next line break.
FirstLine(text, dflt) ==
  IF \A i \in 1..Len(text) : text[i] \in Whitespace THEN dflt
  ELSE LET first == CHOOSE i \in 1..Len(text) :
                      /\ text[i] \notin Whitespace
                      /\ \A j \in 1..(i-1) : text[j] \in Whitespace
           stop == IF \A i \in first..Len(text) : text[i] \notin LineBreaks
                   THEN Len(text) + 1
                   ELSE CHOOSE i \in first..Len(text) :
                          /\ text[i] \in LineBreaks
                          /\ \A j \in first..(i-1) : text[j] \notin LineBreaks
           last == CHOOSE i \in first..(stop-1) :
                     /\ text[i] \notin Whitespace
                     /\ \A j \in (i+1)..(stop-1) : text[j] \in Whitespace
       IN SubSeq(text, first, last)

\* Python's order on str: by code point, a proper prefix first.
StrLess(a, b) ==
  \E k \in 1..(Len(b)) :
    /\ k <= Len(a) + 1
    /\ \A i \in 1..(k-1) : a[i] = b[i]
    /\ \/ k = Len(a) + 1
       \/ k <= Len(a) /\ OrdMap[a[k]] < OrdMap[b[k]]

\* sorted(list(S)) for a set of str
RECURSIVE Sorted(_)
Sorted(S) ==
  IF S = {} THEN <<>>
  ELSE LET m == CHOOSE x \in S : \A y \in S \ {x} : StrLess(x, y)
       IN <<m>> \o Sorted(S \ {m})

-----------------------------------------------------------------------------
(* load_skill_set: the vocabulary.                                         *)

\* A skills.txt: its lines, and how many of them can be read before the
\* open or the iteration raises (Len(lines): none does).
SkillsFile(lines, good) == [lines |-> lines, good |-> good]

\* Lines read are stripped, blank ones skipped, the rest lower-cased; an
\* exception ends the loop and keeps what was appended before it.
load_skill_set(f) ==
  LET read == SubSeq(f.lines, 1, f.good)
      stripped == [i \in 1..Len(read) |-> Strip(read[i])]
      kept == SelectSeq(stripped, LAMBDA skill : skill # <<>>)
  IN [i \in 1..Len(kept) |-> Lower(kept[i])]

-----------------------------------------------------------------------------
(* The regular expressions of parse_resume and parse_job_description.      *)

IsWordAt(text, i) == i >= 1 /\ i <= Len(text) /\ text[i] \in WordChars

\* \b between text[i] and text[i+1] (i = 0: the start; i = Len: the end):
\* exactly one side is a word character.
WordBoundary(text, i) == IsWordAt(text, i) # IsWordAt(text, i + 1)

\* re.search(r"\b" + re.escape(skill) + r"\b", lower_text) finds a match.
\* The escaped skill matches itself, character by character.
SearchSkill(skill, lower_text) ==
  \E s \in 1..(Len(lower_text) - Len(skill) + 1) :
    /\ WordBoundary(lower_text, s - 1)
    /\ \A i \in 1..Len(skill) : lower_text[s + i - 1] = skill[i]
    /\ WordBoundary(lower_text, s + Len(skill) - 1)

\* ScanSkills with the skill added as the vocabulary spells it, .title() lost.
ScanSkillsRaw(text) ==
  LET lower_text == Lower(text)
  IN {SKILLS_SET[i] :
        i \in {k \in 1..Len(SKILLS_SET) : SearchSkill(SKILLS_SET[k], lower_text)}}

\* The loop over SKILLS_SET, up to the set of title-cased skills found.
ScanSkills(text) ==
  LET lower_text == Lower(text)
  IN {Title(SKILLS_SET[i]) :
        i \in {k \in 1..Len(SKILLS_SET) : SearchSkill(SKILLS_SET[k], lower_text)}}

HeadExperience == <<"e","x","p","e","r","i","e","n","c","e">>

HeadWorkExperience == <<"w","o","r","k"," ">> \o HeadExperience

\* A literal of a (?i) pattern matches at s.
MatchesAt(lit, text, s) ==
  /\ s + Len(lit) - 1 <= Len(text)
  /\ \A i \in 1..Len(lit) : LowerChar(text[s + i - 1]) = lit[i]

\* ExpMatch with re.DOTALL lost: (.*) stops before the first "\n".
ExpMatchFirstLine(text) ==
  LET starts == {s \in 1..Len(text) :
                   MatchesAt(HeadExperience, text, s)
                   \/ MatchesAt(HeadWorkExperience, text, s)}
  IN IF starts = {} THEN <<>>
     ELSE LET s == CHOOSE x \in starts : \A y \in starts : x <= y
              n == IF MatchesAt(HeadExperience, text, s)
                   THEN Len(HeadExperience) ELSE Len(HeadWorkExperience)
              nl == {i \in (s + n)..Len(text) : text[i] = "\n"}
              stop == IF nl = {} THEN Len(text)
                      ELSE (CHOOSE i \in nl : \A j \in nl : i <= j) - 1
          IN <<SubSeq(text, s + n, stop)>>

\* group(2) of re.search(r"(?i)(experience|work experience)(.*)", text,
\* re.DOTALL), in a one-element sequence; <<>> when there is no match.  The
\* match is the leftmost one, the first alternative is tried first, and
\* (.*) runs to the end of the text.
ExpMatch(text) ==
  LET starts == {s \in 1..Len(text) :
                   MatchesAt(HeadExperience, text, s)
                   \/ MatchesAt(HeadWorkExperience, text, s)}
  IN IF starts = {} THEN <<>>
     ELSE LET s == CHOOSE x \in starts : \A y \in starts : x <= y
              n == IF MatchesAt(HeadExperience, text, s)
                   THEN Len(HeadExperience) ELSE Len(HeadWorkExperience)
          IN <<SubSeq(text, s + n, Len(text))>>

ExperienceLimit == 500

Experience(text) ==
  LET exp_match == ExpMatch(text)
  IN IF exp_match = <<>> THEN <<>>
     ELSE Take(Strip(exp_match[1]), ExperienceLimit)

parse_resume(text) ==
  [name |-> FirstLine(text, <<>>),
   skills |-> Sorted(ScanSkills(text)),
   experience |-> Experience(text)]

UntitledJob == <<"U","n","t","i","t","l","e","d"," ","J","o","b">>

parse_job_description(text) ==
  [title |-> FirstLine(text, UntitledJob),
   skills_required |-> Sorted(ScanSkills(text)),
   description |-> text]

-----------------------------------------------------------------------------
(* extract_text_from_file                                                  *)

\* file.filename of an upload that carries no name.
NoneName == <<"<None>">>

\* A page whose extract_text() returns None.
NonePage == <<"<None>">>

\* A byte of the content that is no valid UTF-8.
InvalidByte == "<0xFF>"

\* An uploaded file: its name, whether file.file.read() and file.file.seek(0)
\* succeed, the bytes read, and what the two PDF decoders do with these
\* bytes: PdfReader either raises or yields the pages' texts,
\* pdf_extract_text either raises or yields a text.
UploadFile(filename, read_ok, seek_ok, content, reader, miner) ==
  [filename |-> filename, read_ok |-> read_ok, seek_ok |-> seek_ok,
   content |-> content, reader |-> reader, miner |-> miner]

Raises == [ok |-> FALSE, out |-> <<>>]

Yields(out) == [ok |-> TRUE, out |-> out]

LastIndexOf(c, p) ==
  LET at == {i \in 1..Len(p) : p[i] = c}
  IN IF at = {} THEN 0 ELSE CHOOSE i \in at : \A j \in at : j <= i

\* os.path.splitext(p)[1] (posixpath): from the last dot of the last path
\* component, unless only dots precede it there.
SplitExt(p) ==
  LET sepIndex == LastIndexOf("/", p)
      dotIndex == LastIndexOf(".", p)
  IN IF dotIndex > sepIndex
        /\ \E i \in (sepIndex + 1)..(dotIndex - 1) : p[i] # "."
     THEN SubSeq(p, dotIndex, Len(p))
     ELSE <<>>

PdfExt == <<".", "p", "d", "f">>

\* "\n".join(page.extract_text() or "" for page in reader.pages)
RECURSIVE JoinPages(_)
JoinPages(pages) ==
  IF pages = <<>> THEN <<>>
  ELSE LET head == IF pages[1] = NonePage THEN <<>> ELSE pages[1]
       IN IF Len(pages) = 1 THEN head
          ELSE head \o <<"\n">> \o JoinPages(Tail(pages))

\* content.decode("utf-8", errors="ignore")
Decode(content) == SelectSeq(content, LAMBDA b : b # InvalidByte)

\* What a call of extract_text_from_file comes to: the text returned, or the
\* exception that leaves it, and the calls made on the stream and the
\* decoders, in order.
Returned(text, calls) == [raised |-> FALSE, text |-> text, calls |-> calls]

Raised(calls) == [raised |-> TRUE, text |-> <<>>, calls |-> calls]

\* PdfPath with the decoders in the other order: pdf_extract_text first,
\* PdfReader as the fallback.
PdfPathMinerFirst(file, calls) ==
  IF file.miner.ok
  THEN Returned(file.miner.out, calls \o <<"pdf_extract_text">>)
  ELSE IF file.reader.ok
       THEN Returned(JoinPages(file.reader.out),
                     calls \o <<"pdf_extract_text", "PdfReader">>)
       ELSE Returned(<<>>, calls \o <<"pdf_extract_text", "PdfReader">>)

\* The ext == ".pdf" branch.
PdfPath(file, calls) ==
  IF file.reader.ok
  THEN Returned(JoinPages(file.reader.out), calls \o <<"PdfReader">>)
  ELSE IF file.miner.ok
       THEN Returned(file.miner.out,
                     calls \o <<"PdfReader", "pdf_extract_text">>)
       ELSE Returned(<<>>, calls \o <<"PdfReader", "pdf_extract_text">>)

\* The seek is outside every try: an exception of it leaves the function.
extract_text_from_file(file) ==
  LET filename == IF file.filename = NoneName THEN <<>> ELSE file.filename
      ext == Lower(SplitExt(filename))
  IN IF ~file.read_ok THEN Returned(<<>>, <<"read">>)
     ELSE IF ~file.seek_ok THEN Raised(<<"read", "seek">>)
     ELSE IF ext = PdfExt THEN PdfPath(file, <<"read", "seek">>)
     ELSE Returned(Decode(file.content), <<"read", "seek", "decode">>)

-----------------------------------------------------------------------------
(* match_candidates                                                        *)

RECURSIVE Gcd(_, _)
Gcd(a, b) == IF b = 0 THEN a ELSE Gcd(b, a % b)

\* The float a / b of two small naturals, b > 0, as the fraction in lowest
\* terms: two such floats are equal exactly when the fractions are.
Div(a, b) == <<a \div Gcd(a, b), b \div Gcd(a, b)>>

Zero == Div(0, 1)

One == Div(1, 1)

ScoreLeq(x, y) == x[1] * y[2] <= y[1] * x[2]

\* InsertDesc that puts x before the entries of its own score: an ascending
\* sort reversed, which turns the ties around.
RECURSIVE InsertDescUnstable(_, _)
InsertDescUnstable(x, sorted) ==
  IF sorted = <<>> THEN <<x>>
  ELSE IF ScoreLeq(sorted[1][2], x[2])
       THEN <<x>> \o sorted
       ELSE <<sorted[1]>> \o InsertDescUnstable(x, Tail(sorted))

\* list.sort(key=lambda x: x[1], reverse=True): by descending score, equal
\* scores keeping their order.  x goes after every entry that is not below it.
RECURSIVE InsertDesc(_, _)
InsertDesc(x, sorted) ==
  IF sorted = <<>> THEN <<x>>
  ELSE IF ScoreLeq(x[2], sorted[1][2])
       THEN <<sorted[1]>> \o InsertDesc(x, Tail(sorted))
       ELSE <<x>> \o sorted

RECURSIVE SortDesc(_)
SortDesc(matches) ==
  IF matches = <<>> THEN <<>>
  ELSE InsertDesc(matches[Len(matches)],
                  SortDesc(SubSeq(matches, 1, Len(matches) - 1)))

\* Score over the candidate's own skill count instead of the job's.
ScoreByCandidate(req_skills, cand_skills) ==
  IF cand_skills = {} THEN Zero
  ELSE Div(Cardinality(req_skills \cap cand_skills), Cardinality(cand_skills))

\* Score as the overlap over the union of both skill sets.
ScoreJaccard(req_skills, cand_skills) ==
  IF cand_skills = {} THEN Zero
  ELSE Div(Cardinality(req_skills \cap cand_skills),
           Cardinality(req_skills \cup cand_skills))

\* One candidate's score against the required skills.
Score(req_skills, cand_skills) ==
  IF cand_skills = {} THEN Zero
  ELSE Div(Cardinality(req_skills \cap cand_skills), Cardinality(req_skills))

\* The (idx, score) pairs of the loop, idx counted from 0 as enumerate does.
Scored(req_skills) ==
  [i \in 1..Len(candidates) |->
     <<i - 1, Score(req_skills, Range(candidates[i].skills))>>]

\* match_candidates without the early return: a job that requires nothing
\* scores every candidate 0.0.
match_candidates_noreturn(job) ==
  LET req_skills == Range(job.skills_required)
  IN IF req_skills = {}
     THEN SortDesc([i \in 1..Len(candidates) |-> <<i - 1, Zero>>])
     ELSE SortDesc(Scored(req_skills))

match_candidates(job) ==
  LET req_skills == Range(job.skills_required)
  IN IF req_skills = {} THEN <<>>
     ELSE SortDesc(Scored(req_skills))

-----------------------------------------------------------------------------
(* The request handlers.  request records the latest request handled: the  *)
(* handler, how it ended, the text extracted from the upload, and for the  *)
(* dashboard what match_candidates returned per job and the job_matches    *)
(* handed to the template.  UploadFile has no __bool__: "if not file" is   *)
(* never taken.                                                            *)

MaxRecords == 4

Handled(op, outcome, raw_text, matches, job_matches) ==
  [op |-> op, outcome |-> outcome, raw_text |-> raw_text,
   matches |-> matches, job_matches |-> job_matches]

NoRequest == Handled("none", "none", <<>>, <<>>, <<>>)

dashboard ==
  LET matches == [j \in 1..Len(jobs) |-> match_candidates(jobs[j])]
      job_matches ==
        [j \in 1..Len(jobs) |->
           [k \in 1..Len(matches[j]) |->
              <<candidates[matches[j][k][1] + 1].name, matches[j][k][2]>>]]
  IN /\ request' = Handled("dashboard", "page", <<>>, matches, job_matches)
     /\ UNCHANGED <<SKILLS_SET, candidates, jobs, xfile, xresult, ptext, presult>>

\* upload_resume that stores the new record in front (insert(0, ...)), and
\* does so whatever was extracted.
upload_resume_prepend(file) ==
  LET got == extract_text_from_file(file)
      raw_text == got.text
      candidate_info ==
        [filename |-> file.filename] @@ parse_resume(raw_text)
  IN /\ Len(candidates) + Len(jobs) < MaxRecords
     /\ ~got.raised
     /\ candidates' = <<candidate_info>> \o candidates
     /\ request' = Handled("upload_resume", "redirect", raw_text, <<>>, <<>>)
     /\ UNCHANGED <<SKILLS_SET, jobs, xfile, xresult, ptext, presult>>

upload_resume(file) ==
  LET got == extract_text_from_file(file)
      raw_text == got.text
      candidate_info ==
        [filename |-> file.filename] @@ parse_resume(raw_text)
  IN /\ Len(candidates) + Len(jobs) < MaxRecords
     /\ IF got.raised
        THEN /\ request' = Handled("upload_resume", "exception", <<>>, <<>>, <<>>)
             /\ UNCHANGED candidates
        ELSE IF raw_text = <<>>
        THEN /\ request' = Handled("upload_resume", "error_page", raw_text, <<>>, <<>>)
             /\ UNCHANGED candidates
        ELSE /\ candidates' = Append(candidates, candidate_info)
             /\ request' = Handled("upload_resume", "redirect", raw_text, <<>>, <<>>)
     /\ UNCHANGED <<SKILLS_SET, jobs, xfile, xresult, ptext, presult>>

upload_job(file) ==
  LET got == extract_text_from_file(file)
      raw_text == got.text
      job_info ==
        [filename |-> file.filename] @@ parse_job_description(raw_text)
  IN /\ Len(candidates) + Len(jobs) < MaxRecords
     /\ IF got.raised
        THEN /\ request' = Handled("upload_job", "exception", <<>>, <<>>, <<>>)
             /\ UNCHANGED jobs
        ELSE IF raw_text = <<>>
        THEN /\ request' = Handled("upload_job", "error_page", raw_text, <<>>, <<>>)
             /\ UNCHANGED jobs
        ELSE /\ jobs' = Append(jobs, job_info)
             /\ request' = Handled("upload_job", "redirect", raw_text, <<>>, <<>>)
     /\ UNCHANGED <<SKILLS_SET, candidates, xfile, xresult, ptext, presult>>

-----------------------------------------------------------------------------
(* Inputs of Spec: skills files and uploads.                               *)

Str_Python == <<"P","y","t","h","o","n">>

Str_SQL == <<" ","S","Q","L"," ">>

Str_Excel == <<"E","x","c","e","l">>

VocabLines == <<Str_Python, Str_SQL, <<>>, Str_Excel>>

\* skills.txt read whole, read up to an I/O error after two lines (the
\* vocabulary python, sql), and missing.
SkillsFiles ==
  {SkillsFile(VocabLines, 4), SkillsFile(VocabLines, 2), SkillsFile(VocabLines, 0)}

Scenario1Text ==
  <<"J","a","n","e"," ","D","o","e","\n","j","a","n","e","@","x",".","c",
    "o","m","\n","5","5","5","-","1","2","3","-","4","5","6","7","\n","S",
    "k","i","l","l","s",":"," ","P","y","t","h","o","n",","," ","S","Q","L",
    ","," ","E","x","c","e","l","\n","E","x","p","e","r","i","e","n","c",
    "e",":"," ","b","u","i","l","t"," ","p","i","p","e","l","i","n","e","s",
    " ","f","o","r"," ","3"," ","y","e","a","r","s",".">>

BobText ==
  <<"B","o","b","\n","P","y","t","h","o","n",","," ","E","x","c","e","l">>

JobText ==
  <<"D","a","t","a"," ","E","n","g","i","n","e","e","r","\n","S","Q","L",
    ","," ","p","y","t","h","o","n">>

Name_cv ==
  <<"c","v",".","t","x","t">>

Name_bob ==
  <<"b","o","b",".","t","x","t">>

Name_job ==
  <<"j","o","b",".","P","D","F">>

Name_bad ==
  <<"b","a","d",".","p","d","f">>

UploadFiles ==
  {UploadFile(Name_cv, TRUE, TRUE, Scenario1Text, Raises, Raises),
   UploadFile(Name_bob, TRUE, TRUE,
              <<InvalidByte>> \o BobText \o <<InvalidByte>>, Raises, Raises),
   UploadFile(Name_job, TRUE, TRUE, <<InvalidByte>>, Raises, Yields(JobText)),
   UploadFile(NoneName, TRUE, TRUE, <<"\n">>, Raises, Raises),
   UploadFile(Name_bad, TRUE, TRUE, BobText, Raises, Raises),
   UploadFile(Name_cv, FALSE, TRUE, Scenario1Text, Raises, Raises),
   UploadFile(Name_cv, TRUE, FALSE, Scenario1Text, Raises, Raises)}

NoFile == UploadFile(<<>>, TRUE, TRUE, <<>>, Raises, Raises)

NoExtract == [done |-> FALSE] @@ Returned(<<>>, <<>>)

NoParse ==
  [kind |-> "none", first_line |-> <<>>, skills |-> <<>>,
   experience |-> <<>>, description |-> <<>>]

Init ==
  /\ SKILLS_SET \in {load_skill_set(f) : f \in SkillsFiles}
  /\ candidates = <<>>
  /\ jobs = <<>>
  /\ request = NoRequest
  /\ xfile = NoFile
  /\ xresult = NoExtract
  /\ ptext = <<>>
  /\ presult = NoParse

Next ==
  \/ \E file \in UploadFiles : upload_resume(file)
  \/ \E file \in UploadFiles : upload_job(file)
  \/ dashboard

Spec == Init /\ [][Next]_vars

-----------------------------------------------------------------------------
(* SpecExtract: extract_text_from_file on every file of a bounded set.     *)

MaxContentLen == 2

MaxPages == 2

SeqsUpTo(S, n) == UNION {[1..k -> S] : k \in 0..n}

ExtractNames ==
  {NoneName, <<>>, <<"a",".","p","d","f">>, <<"a",".","P","D","F">>,
   <<".","p","d","f">>, <<"d","/",".","p","d","f">>, <<".",".","P","d","f">>, <<"a",".","t","x","t">>,
   <<"a",".","p","d","f",".","t","x","t">>, <<"a",".","b","/","p","d","f">>, <<"a",".","d","/","b",".","p","d","f">>}

ExtractFiles ==
  {UploadFile(name, read_ok, seek_ok, content, reader, miner) :
     name \in ExtractNames, read_ok \in BOOLEAN, seek_ok \in BOOLEAN,
     content \in SeqsUpTo({"h", InvalidByte}, MaxContentLen),
     reader \in {Raises} \cup {Yields(pages) :
                     pages \in SeqsUpTo({<<"p">>, NonePage}, MaxPages)},
     miner \in {Raises, Yields(<<>>), Yields(<<"m">>)}}

InitExtract ==
  /\ SKILLS_SET = <<>>
  /\ candidates = <<>>
  /\ jobs = <<>>
  /\ request = NoRequest
  /\ xfile \in ExtractFiles
  /\ xresult = NoExtract
  /\ ptext = <<>>
  /\ presult = NoParse

Extract ==
  /\ ~xresult.done
  /\ xresult' = [done |-> TRUE] @@ extract_text_from_file(xfile)
  /\ UNCHANGED <<SKILLS_SET, candidates, jobs, request, xfile, ptext, presult>>

SpecExtract == InitExtract /\ [][Extract]_vars

-----------------------------------------------------------------------------
(* SpecParse: parse_resume and parse_job_description on every text of a    *)
(* bounded set, under several vocabularies.                                *)

MaxTextLen == 4

MaxPad == 3

ParseSkillsFiles ==
  {SkillsFile(<<<<"C">>, <<"C","+","+">>>>, 2),
   SkillsFile(<<<<"G","o">>>>, 1),
   SkillsFile(VocabLines, 2)}

ScanTexts == SeqsUpTo({"c", "C", "x", "+", " "}, MaxTextLen)

GoTexts ==
  {<<"G","o","i","n","g">>, <<"A","l","g","o","r","i","t","h","m">>,
   <<"I"," ","u","s","e"," ","G","o",".">>, <<"g","o">>, <<"G","o","\t","C","+","+">>}

Fill(n) == [i \in 1..n |-> "x"]

\* Texts around the experience heading, with bodies at both sides of
\* ExperienceLimit.
ExperienceTexts ==
  {pre \o head \o mid \o Fill(n) \o post :
     pre \in {<<>>, <<"A","l","\n">>},
     head \in {<<"e","x","p","e","r","i","e","n","c","e">>,
               <<"E","X","P","E","R","I","E","N","C","E">>,
               <<"W","o","r","k"," ","E","x","p","e","r","i","e","n","c","e">>,
               <<"E","x","p","e","r","i","e","n","c">>},
     mid \in {<<>>, <<":", " ">>, <<"\n">>},
     n \in {0, 1} \cup {ExperienceLimit - 2 + k : k \in 0..MaxPad},
     post \in {<<>>, <<" ", "\n">>, <<"\n","E","x","p","e","r","i","e","n","c","e"," ","x">>}}

ParseTexts == ScanTexts \cup GoTexts \cup ExperienceTexts \cup {Scenario1Text}

InitParse ==
  /\ SKILLS_SET \in {load_skill_set(f) : f \in ParseSkillsFiles}
  /\ candidates = <<>>
  /\ jobs = <<>>
  /\ request = NoRequest
  /\ xfile = NoFile
  /\ xresult = NoExtract
  /\ ptext \in ParseTexts
  /\ presult = NoParse

ParseResume ==
  /\ presult.kind = "none"
  /\ LET r == parse_resume(ptext)
     IN presult' = [kind |-> "resume", first_line |-> r.name,
                    skills |-> r.skills, experience |-> r.experience,
                    description |-> <<>>]
  /\ UNCHANGED <<SKILLS_SET, candidates, jobs, request, xfile, xresult, ptext>>

ParseJob ==
  /\ presult.kind = "none"
  /\ LET r == parse_job_description(ptext)
     IN presult' = [kind |-> "job", first_line |-> r.title,
                    skills |-> r.skills_required, experience |-> <<>>,
                    description |-> r.description]
  /\ UNCHANGED <<SKILLS_SET, candidates, jobs, request, xfile, xresult, ptext>>

NextParse == ParseResume \/ ParseJob

SpecParse == InitParse /\ [][NextParse]_vars

-----------------------------------------------------------------------------
(* Properties of match_candidates, read off the dashboard's latest answer: *)
(* in a state whose request is a dashboard request, request.matches[j] is  *)
(* what match_candidates returned for jobs[j] over the candidates stored.  *)

Required(j) == Range(jobs[j].skills_required)

SkillsOf(idx) == Range(candidates[idx + 1].skills)

\* The jobs of a dashboard answer that require at least one skill.
RankedJobs ==
  IF request.op = "dashboard"
  THEN {j \in 1..Len(jobs) : Required(j) # {}}
  ELSE {}

\* C1: for every job that requires some skill, every stored candidate gets
\* one score; the score is between 0.0 and 1.0, and it is 1.0 exactly when
\* the candidate's skills include all the required ones.
ScoreBounds ==
  \A j \in RankedJobs :
    LET m == request.matches[j]
    IN /\ {m[k][1] : k \in 1..Len(m)} = 0..(Len(candidates) - 1)
       /\ Len(m) = Len(candidates)
       /\ \A k \in 1..Len(m) :
            /\ ScoreLeq(Zero, m[k][2])
            /\ ScoreLeq(m[k][2], One)
            /\ m[k][2] = One <=> Required(j) \subseteq SkillsOf(m[k][1])

\* A job ranked a full match, a partial one that has skills the job does
\* not ask for, and so a score strictly between 0.0 and 1.0.
ScoreBoundsWitness ==
  \E j \in RankedJobs :
    LET m == request.matches[j]
    IN /\ \E k \in 1..Len(m) : m[k][2] = One
       /\ \E k \in 1..Len(m) :
            /\ m[k][2] # One
            /\ m[k][2] # Zero
            /\ ~(SkillsOf(m[k][1]) \subseteq Required(j))

\* C2: the ranking is by descending score, and candidates of equal score
\* stand in the order of their indices, the order they were appended in.
RankedStable ==
  \A j \in RankedJobs :
    LET m == request.matches[j]
    IN \A k, l \in 1..Len(m) :
         k < l => /\ ScoreLeq(m[l][2], m[k][2])
                  /\ m[k][2] = m[l][2] => m[k][1] < m[l][1]

\* A ranking that holds a tie between two candidates and, below or above
\* it, a candidate the sort had to move past an earlier one.
RankedStableWitness ==
  \E j \in RankedJobs :
    LET m == request.matches[j]
    IN /\ \E k, l \in 1..Len(m) : k < l /\ m[k][2] = m[l][2] /\ m[k][2] # Zero
       /\ \E k, l \in 1..Len(m) : k < l /\ m[k][1] > m[l][1]

\* C3: a job that requires no skill gets the empty ranking, whatever the
\* candidates stored.
EmptyRequiredEmptyResult ==
  request.op = "dashboard" =>
    \A j \in 1..Len(jobs) : Required(j) = {} => request.matches[j] = <<>>

\* A dashboard over a job that requires nothing while two candidates are
\* stored, one of them with skills.
EmptyRequiredWitness ==
  /\ request.op = "dashboard"
  /\ Len(candidates) >= 2
  /\ \E i \in 1..Len(candidates) : candidates[i].skills # <<>>
  /\ \E j \in 1..Len(jobs) : Required(j) = {} /\ request.matches[j] = <<>>

\* C8: for one job that requires some skill, a candidate whose skills
\* include another candidate's scores at least as high as the other.
MonotonicRanking ==
  \A j \in RankedJobs :
    LET m == request.matches[j]
    IN \A a, b \in 1..Len(m) :
         SkillsOf(m[b][1]) \subseteq SkillsOf(m[a][1])
           => ScoreLeq(m[b][2], m[a][2])

\* Two candidates with skills, the first's a proper part of the second's,
\* the extra ones partly outside the job's requirements; the scores differ.
MonotonicWitness ==
  \E j \in RankedJobs :
    LET m == request.matches[j]
    IN \E a, b \in 1..Len(m) :
         /\ SkillsOf(m[b][1]) # {}
         /\ SkillsOf(m[b][1]) \subseteq SkillsOf(m[a][1])
         /\ SkillsOf(m[a][1]) # SkillsOf(m[b][1])
         /\ ~(SkillsOf(m[a][1]) \subseteq Required(j))
         /\ m[a][2] # m[b][2]

-----------------------------------------------------------------------------
(* Properties of the stored collections.                                   *)

TitledVocabulary == {Title(SKILLS_SET[k]) : k \in 1..Len(SKILLS_SET)}

\* C4: every skill of every stored candidate and of every stored job is the
\* title-cased form of an entry of the loaded vocabulary.
StoredSkillsInVocabulary ==
  /\ \A i \in 1..Len(candidates) :
       Range(candidates[i].skills) \subseteq TitledVocabulary
  /\ \A j \in 1..Len(jobs) :
       Range(jobs[j].skills_required) \subseteq TitledVocabulary

\* A candidate and a job are stored with skills, among them one the text
\* spells in another case than the title case stored, and the text named
\* a skill (Excel) the vocabulary loaded does not hold.
StoredSkillsWitness ==
  /\ Len(SKILLS_SET) = 2
  /\ \E i \in 1..Len(candidates) : Len(candidates[i].skills) = 2
  /\ \E j \in 1..Len(jobs) :
       /\ jobs[j].description = JobText
       /\ Len(jobs[j].skills_required) = 2

IsPrefix(s, t) == Len(s) <= Len(t) /\ SubSeq(t, 1, Len(s)) = s

\* C9: each step keeps the earlier contents of candidates and of jobs as a
\* prefix of the later; it adds at most one record in all; an upload_resume
\* leaves jobs alone and an upload_job candidates; the dashboard, and an
\* upload whose extracted text is empty, add nothing.
AppendOnly ==
  [][/\ IsPrefix(candidates, candidates')
     /\ IsPrefix(jobs, jobs')
     /\ Len(candidates') + Len(jobs') <= Len(candidates) + Len(jobs) + 1
     /\ request'.op = "upload_resume" => jobs' = jobs
     /\ request'.op = "upload_job" => candidates' = candidates
     /\ request'.op \notin {"upload_resume", "upload_job"}
          => candidates' = candidates /\ jobs' = jobs
     /\ request'.raw_text = <<>>
          => candidates' = candidates /\ jobs' = jobs]_vars

\* Both collections hold records, resumes of two different texts among
\* them, and the latest request was an upload that extracted no text.
AppendOnlyWitness ==
  /\ Len(candidates) >= 2
  /\ candidates[1] # candidates[2]
  /\ Len(jobs) >= 1
  /\ request.op \in {"upload_resume", "upload_job"}
  /\ request.outcome = "error_page"
  /\ request.raw_text = <<>>

-----------------------------------------------------------------------------
(* Properties of extract_text_from_file, under SpecExtract.                *)

GivenName == IF xfile.filename = NoneName THEN <<>> ELSE xfile.filename

\* The name ends in ".pdf", in any letter case.
EndsInPdf(name) ==
  Len(name) >= Len(PdfExt)
  /\ Lower(SubSeq(name, Len(name) - Len(PdfExt) + 1, Len(name))) = PdfExt

\* The name ends in ".pdf", in any letter case, and in its last path
\* component a character other than a dot stands before that final dot.
HasPdfExtension(name) ==
  /\ EndsInPdf(name)
  /\ \E i \in 1..(Len(name) - Len(PdfExt)) :
       /\ name[i] # "."
       /\ \A j \in i..(Len(name) - Len(PdfExt)) : name[j] # "/"

Called(call) == call \in Range(xresult.calls)

\* C5: extract_text_from_file never raises; it returns a string, the empty
\* one when the read fails, the seek fails or both PDF decoders fail.
ExtractNeverRaises ==
  xresult.done =>
    /\ ~xresult.raised
    /\ (~xfile.read_ok \/ ~xfile.seek_ok
        \/ (Called("pdf_extract_text") /\ ~xfile.miner.ok))
         => xresult.text = <<>>

-----------------------------------------------------------------------------
(* Properties of the parsers, under SpecParse.                             *)

\* The entry occurs in the text, letter case aside, with a non-word
\* character or the start before it and a non-word character or the end
\* after it.
OccursAsWord(entry, text) ==
  \E s \in 1..(Len(text) - Len(entry) + 1) :
    /\ Lower(SubSeq(text, s, s + Len(entry) - 1)) = entry
    /\ s = 1 \/ text[s - 1] \notin WordChars
    /\ s + Len(entry) - 1 = Len(text) \/ text[s + Len(entry)] \notin WordChars

\* C6: a vocabulary entry is among the parsed skills exactly when the text
\* holds such an occurrence of it.
WholeWordIff ==
  presult.kind # "none" =>
    \A k \in 1..Len(SKILLS_SET) :
      Title(SKILLS_SET[k]) \in Range(presult.skills)
        <=> OccursAsWord(SKILLS_SET[k], ptext)

StartsWith(s, prefix) ==
  Len(s) >= Len(prefix) /\ SubSeq(s, 1, Len(prefix)) = prefix

BuiltPipelines ==
  <<"b","u","i","l","t"," ","p","i","p","e","l","i","n","e","s">>

ScenarioExperience ==
  <<":"," ","b","u","i","l","t"," ","p","i","p","e","l","i","n","e","s"," ",
    "f","o","r"," ","3"," ","y","e","a","r","s",".">>

\* Where "experience" occurs in the text, letter case aside.
HeadingAt(text) ==
  {s \in 1..(Len(text) - Len(HeadExperience) + 1) :
     Lower(SubSeq(text, s, s + Len(HeadExperience) - 1)) = HeadExperience}

\* The text after the first occurrence of the heading.
AfterHeading(text) ==
  LET first == CHOOSE s \in HeadingAt(text) : \A t \in HeadingAt(text) : s <= t
  IN SubSeq(text, first + Len(HeadExperience), Len(text))

\* What the claims say of experience in general: empty without a heading,
\* else the text after the first heading, surrounding whitespace aside, cut
\* to ExperienceLimit characters.
ExperienceInGeneral ==
  IF HeadingAt(ptext) = {} THEN presult.experience = <<>>
  ELSE LET rest == Strip(AfterHeading(ptext))
       IN /\ Len(presult.experience) =
               (IF Len(rest) < ExperienceLimit THEN Len(rest) ELSE ExperienceLimit)
          /\ StartsWith(rest, presult.experience)

\* C7 as stated: the experience of the Scenario 1 resume starts with
\* "built pipelines", and experience is in general as above.
ExperienceAsStated ==
  presult.kind = "resume" =>
    /\ ptext = Scenario1Text => StartsWith(presult.experience, BuiltPipelines)
    /\ ExperienceInGeneral

\* C7 amended: the experience of the Scenario 1 resume is
\* ": built pipelines for 3 years.", the colon after the heading included;
\* experience is in general the text after the first occurrence of
\* "experience", stripped of surrounding whitespace and then cut to 500
\* characters, and empty without a heading.
ExperienceAmended ==
  presult.kind = "resume" =>
    /\ ptext = Scenario1Text => presult.experience = ScenarioExperience
    /\ ExperienceInGeneral

\* The Scenario 1 resume has been parsed.
ExperienceWitness ==
  /\ presult.kind = "resume"
  /\ ptext = Scenario1Text
  /\ presult.experience = ScenarioExperience
  /\ presult.skills # <<>>

=============================================================================
